---- MODULE Spec2Model ----
(***************************************************************************)
(* Model of the elevator simulation engine (src/src/lib.rs) and of the     *)
(* turn protocol driver (src/src/bin/local_judge.rs).                      *)
(*                                                                         *)
(* Vec<T> is modelled as a TLA+ sequence: the 0-based index i of the code  *)
(* is position i + 1 of the sequence.                                      *)
(***************************************************************************)
EXTENDS Integers, Sequences, FiniteSets, TLC

\* ------------------------------------------------------------------ bounds
MaxN == 2           \* floors: n is drawn from 1..MaxN
MaxM == 2           \* elevators: m is drawn from 1..MaxM
MaxC == 2           \* capacity: c is drawn from 0..MaxC
MaxT == 1           \* turns: t is drawn from 1..MaxT
MaxPassengers == 2  \* passengers ever created in one run
MaxPicks == 2       \* length of the pickup index list of one OPEN
MaxIdx == 2         \* largest pickup index an agent supplies
MaxTurns == 3       \* turns of a run of the driver: t is drawn from 1..MaxTurns
MaxArrivalsFair == 1 \* arrivals of a scenario of the runs checked for termination

VARIABLES
    n, m, c, t,             \* SimulationState.n / m / c / t
    turn,                   \* SimulationState.turn
    score,                  \* SimulationState.score
    elevators,              \* SimulationState.elevators: 0..m-1 -> Elevator
    waiting_passengers,     \* SimulationState.waiting_passengers: 0..n-1 -> Vec<Passenger>
    next_id,                \* next fresh passenger id
    delivered,              \* history: the passengers dropped by the drop-off loop
    panicked,               \* the process died in an arithmetic or index panic
    last,                   \* the call in progress and what it returned
    pre,                    \* history: the state that call was made on
    \* main of local_judge.rs
    pc,                     \* where main stands
    jturn,                  \* turn of "for turn in 0..t"
    ji,                     \* i of "for i in 0..m" (process agent actions)
    passenger_source,       \* passenger_source[i][turn]: the arrivals not yet merged
    child,                  \* the agent process: "none", "running" or "killed"
    action_line,            \* the tokens of the reply line read and not yet applied
    params,                 \* the parameter line written to the agent
    sent,                   \* the state lines written to the agent for this turn
    nread,                  \* history: reply lines read so far
    applied,                \* history: elevator indices applied in this turn, in order
    turn_start,             \* history: the state the lines of this turn were written from
    printed,                \* the "Score: .." lines printed
    io,                     \* history: the writes, flushes, reads and applications, in order
    agent,                  \* main of sample_agent.rs: where it stands, what it has read and printed
    error                   \* the error main returned, if any

vars == <<n, m, c, t, turn, score, elevators, waiting_passengers,
          next_id, delivered, panicked, last, pre,
          pc, jturn, ji, passenger_source, child, action_line, params, sent,
          nread, applied, turn_start, printed, io, agent, error>>

jvars == <<pc, jturn, ji, passenger_source, child, action_line, params, sent,
           nread, applied, turn_start, printed, io, agent, error>>

simvars == <<n, m, c, t, turn, score, elevators, waiting_passengers>>

\* ------------------------------------------------------------- data model
\* struct Passenger
Passenger(id, arrival_turn, target_floor) ==
    [id |-> id, arrival_turn |-> arrival_turn, target_floor |-> target_floor]

\* struct Elevator
Elevator(floor, capacity, passengers) ==
    [floor |-> floor, capacity |-> capacity, passengers |-> passengers]

\* The action tokens a caller may pass; "JUMP" stands for every token that is
\* none of the four the match recognises.
Actions == {"UP", "DOWN", "STAY", "OPEN", "JUMP"}

\* usize::min
Min(a, b) == IF a <= b THEN a ELSE b

\* usize::saturating_sub
SaturatingSub(a, b) == IF a >= b THEN a - b ELSE 0

\* Vec::remove(idx): the element at 0-based idx is taken out, the rest shift left.
VecRemove(v, idx) ==
    [k \in 1..(Len(v) - 1) |-> IF k <= idx THEN v[k] ELSE v[k + 1]]

\* picks.to_vec() followed by sort_unstable_by(|a, b| b.cmp(a)): descending.
RECURSIVE InsertDesc(_, _)
InsertDesc(x, s) ==
    IF s = <<>> THEN <<x>>
    ELSE IF x >= Head(s) THEN <<x>> \o s
    ELSE <<Head(s)>> \o InsertDesc(x, Tail(s))

\* Mutant of SortDesc: the indices are used in the order they were given.
SortDesc_Unsorted(s) == s

RECURSIVE SortDesc(_)
SortDesc(s) == IF s = <<>> THEN <<>> ELSE InsertDesc(Head(s), SortDesc(Tail(s)))

\* All pickup index lists an agent may send.
RECURSIVE SeqsUpTo(_, _)
SeqsUpTo(S, k) ==
    IF k = 0 THEN {<<>>}
    ELSE LET shorter == SeqsUpTo(S, k - 1)
         IN  shorter \cup {Append(s, x) : s \in {q \in shorter : Len(q) = k - 1}, x \in S}

PickLists == SeqsUpTo(0..MaxIdx, MaxPicks)

\* ------------------------------------------------------------ constructor
\* SimulationState::new(n, m, c, t)
New(nn, mm, cc, tt) ==
    /\ n = nn /\ m = mm /\ c = cc /\ t = tt
    /\ elevators = [e \in 0..(mm - 1) |-> Elevator(nn \div 2, cc, <<>>)]
    /\ waiting_passengers = [f \in 0..(nn - 1) |-> <<>>]
    /\ turn = 0
    /\ score = 0

\* No call is in progress: the caller has taken the result of the last one.
NoCall == [op |-> "none", elevator_idx |-> 0, action |-> "", picks |-> <<>>,
           res |-> "Ok", value |-> 0]

\* The fields of the state a call may change.
Snapshot ==
    [turn |-> turn, score |-> score, elevators |-> elevators,
     waiting_passengers |-> waiting_passengers]

\* sample_agent.rs before it has read anything: m and t are read from the
\* parameter line, lines counts the lines read, replies the lines printed.
AgentStart == [pc |-> "header", m |-> 0, t |-> 0, turns |-> 0, lines |-> 0, replies |-> 0]

\* The library is used without the driver: main of local_judge never runs.
NoJudge ==
    /\ pc = "lib" /\ jturn = 0 /\ ji = 0 /\ passenger_source = <<>>
    /\ child = "none" /\ action_line = <<>> /\ params = <<>> /\ sent = <<>>
    /\ nread = 0 /\ applied = <<>> /\ turn_start = Snapshot
    /\ printed = <<>> /\ io = <<>> /\ error = <<>>
    /\ agent = AgentStart

Init ==
    /\ \E nn \in 1..MaxN, mm \in 1..MaxM, cc \in 0..MaxC, tt \in 1..MaxT :
          New(nn, mm, cc, tt)
    /\ next_id = 0
    /\ delivered = {}
    /\ panicked = FALSE
    /\ last = NoCall
    /\ pre = Snapshot
    /\ NoJudge

\* ----------------------------------------------------------- apply_action
\* if elevator_idx >= self.m { bail!("Invalid elevator index") }
InvalidElevator(elevator_idx) == elevator_idx >= m

\* Mutant of MoveUp: the saturation at the top floor is missing.
MoveUp_NoClamp(floor) == floor + 1

\* "UP": (floor + 1).min(self.n - 1)
MoveUp(floor) == Min(floor + 1, n - 1)

\* "DOWN": floor.saturating_sub(1)
MoveDown(floor) == SaturatingSub(floor, 1)

\* passengers.drain(..).partition(|p| p.target_floor == current_floor):
\* both halves keep the order of the aboard list.
RECURSIVE Partition(_, _)
Partition(passengers, current_floor) ==
    IF passengers = <<>> THEN [delivered |-> <<>>, remaining |-> <<>>]
    ELSE LET p == Head(passengers)
             rest == Partition(Tail(passengers), current_floor)
         IN  IF p.target_floor = current_floor
             THEN [rest EXCEPT !.delivered = <<p>> \o @]
             ELSE [rest EXCEPT !.remaining = <<p>> \o @]

\* Mutant of Duration: the + 1 is missing.
Duration_NoPlusOne(p) == turn - p.arrival_turn

\* let duration = self.turn - p.arrival_turn + 1, on usize.  When arrival_turn
\* exceeds turn the subtraction overflows: a build with overflow checks panics
\* (see Underflows); a build without them wraps, and the wrapped duration d
\* satisfies d = turn - arrival_turn + 1 (mod 2^64).
Duration(p) == turn - p.arrival_turn + 1

\* (duration as u64).pow(2).  For a wrapped duration 2^64 - k the wrapping
\* square is k * k, which is the square of the (negative) integer above.
Square(d) == d * d

\* for p in delivered { self.score += (duration as u64).pow(2) }
RECURSIVE ScoreDelivered(_)
ScoreDelivered(ps) ==
    IF ps = <<>> THEN 0 ELSE Square(Duration(Head(ps))) + ScoreDelivered(Tail(ps))

\* self.turn - p.arrival_turn overflows for some delivered passenger
Underflows(ps) == \E k \in 1..Len(ps) : ps[k].arrival_turn > turn

\* if idx >= self.waiting_passengers[current_floor].len() { bail!(...) }
IndexOutOfRange(idx, queue) == idx >= Len(queue)

\* Mutant of AtCapacity: the test is off by one (> for >=).
AtCapacity_OffByOne(passengers, capacity) == Len(passengers) > capacity

\* if passengers.len() >= capacity { continue }
AtCapacity(passengers, capacity) == Len(passengers) >= capacity

\* Mutant of Board: the passenger is cloned into the elevator, not removed.
Board_NoRemove(idx, queue, passengers) ==
    [queue |-> queue, passengers |-> Append(passengers, queue[idx + 1])]

\* let p = waiting.remove(idx); passengers.push(p)
Board(idx, queue, passengers) ==
    [queue |-> VecRemove(queue, idx), passengers |-> Append(passengers, queue[idx + 1])]

\* for &idx in &sorted_picks { ... }: the loop mutates the queue and the aboard
\* list in place, so a bail! leaves what the earlier iterations have done.
RECURSIVE PickUp(_, _, _, _)
PickUp(sorted_picks, queue, passengers, capacity) ==
    IF sorted_picks = <<>>
    THEN [queue |-> queue, passengers |-> passengers, err |-> FALSE]
    ELSE LET idx == Head(sorted_picks)
         IN  IF IndexOutOfRange(idx, queue)
             THEN [queue |-> queue, passengers |-> passengers, err |-> TRUE]
             ELSE IF AtCapacity(passengers, capacity)
             THEN PickUp(Tail(sorted_picks), queue, passengers, capacity)
             ELSE LET b == Board(idx, queue, passengers)
                  IN  PickUp(Tail(sorted_picks), b.queue, b.passengers, capacity)

\* Mutant of Open: the pick-up loop runs before the drop-off, so the capacity
\* test counts the passengers that are about to leave.
Open_PickUpFirst(elevator_idx, picks) ==
    LET current_floor == elevators[elevator_idx].floor
        picked == PickUp(SortDesc(picks), waiting_passengers[current_floor],
                         elevators[elevator_idx].passengers,
                         elevators[elevator_idx].capacity)
        parts == Partition(picked.passengers, current_floor)
    IN  [elevators |-> [elevators EXCEPT ![elevator_idx].passengers = parts.remaining],
         waiting_passengers |-> [waiting_passengers EXCEPT ![current_floor] = picked.queue],
         score |-> score + ScoreDelivered(parts.delivered),
         dropped |-> parts.delivered,
         underflow |-> Underflows(parts.delivered),
         res |-> IF picked.err THEN "InvalidPassenger" ELSE "Ok"]

\* The "OPEN" arm: drop off, score, then pick up.
Open(elevator_idx, picks) ==
    LET current_floor == elevators[elevator_idx].floor
        parts == Partition(elevators[elevator_idx].passengers, current_floor)
        picked == PickUp(SortDesc(picks), waiting_passengers[current_floor],
                         parts.remaining, elevators[elevator_idx].capacity)
    IN  [elevators |-> [elevators EXCEPT ![elevator_idx].passengers = picked.passengers],
         waiting_passengers |-> [waiting_passengers EXCEPT ![current_floor] = picked.queue],
         score |-> score + ScoreDelivered(parts.delivered),
         dropped |-> parts.delivered,
         underflow |-> Underflows(parts.delivered),
         res |-> IF picked.err THEN "InvalidPassenger" ELSE "Ok"]

\* What apply_action(elevator_idx, action, picks) does to the state and returns.
Unchanged(res) ==
    [elevators |-> elevators, waiting_passengers |-> waiting_passengers,
     score |-> score, dropped |-> <<>>, underflow |-> FALSE, res |-> res]

\* Mutant of UnknownAction: an unknown token is accepted as a no-op.
UnknownAction_Accepted(action) == Unchanged("Ok")

\* _ => bail!("Unknown action: {}", action)
UnknownAction(action) == Unchanged("UnknownAction")

\* Mutant of Stay: the token is not among those the match recognises.
Stay_Unknown(elevator_idx) == Unchanged("UnknownAction")

\* "STAY" => {}
Stay(elevator_idx) == Unchanged("Ok")

\* Mutant of Apply: UP and DOWN move elevator 0 whatever the index is.
Apply_FirstElevator(elevator_idx, action, picks) ==
    IF InvalidElevator(elevator_idx) THEN Unchanged("InvalidElevator")
    ELSE CASE action = "UP" ->
                [Unchanged("Ok") EXCEPT !.elevators =
                    [elevators EXCEPT ![0].floor = MoveUp(@)]]
           [] action = "DOWN" ->
                [Unchanged("Ok") EXCEPT !.elevators =
                    [elevators EXCEPT ![0].floor = MoveDown(@)]]
           [] action = "STAY" -> Stay(elevator_idx)
           [] action = "OPEN" -> Open(elevator_idx, picks)
           [] OTHER -> UnknownAction(action)

\* match action { "UP" => .., "DOWN" => .., "STAY" => .., "OPEN" => .., _ => bail! }
Apply(elevator_idx, action, picks) ==
    IF InvalidElevator(elevator_idx) THEN Unchanged("InvalidElevator")
    ELSE CASE action = "UP" ->
                [Unchanged("Ok") EXCEPT !.elevators =
                    [elevators EXCEPT ![elevator_idx].floor = MoveUp(@)]]
           [] action = "DOWN" ->
                [Unchanged("Ok") EXCEPT !.elevators =
                    [elevators EXCEPT ![elevator_idx].floor = MoveDown(@)]]
           [] action = "STAY" -> Stay(elevator_idx)
           [] action = "OPEN" -> Open(elevator_idx, picks)
           [] OTHER -> UnknownAction(action)

Call(op, elevator_idx, action, picks, res, value) ==
    [op |-> op, elevator_idx |-> elevator_idx, action |-> action, picks |-> picks,
     res |-> res, value |-> value]

\* The passengers of a delivered list, with the turn of their delivery.
DeliveredAt(ps, at) ==
    {[id |-> ps[k].id, arrival_turn |-> ps[k].arrival_turn,
      target_floor |-> ps[k].target_floor, at |-> at] : k \in 1..Len(ps)}

\* A panic ends the process: nothing of the state is observable afterwards.
Panic(call) ==
    /\ panicked' = TRUE
    /\ last' = call
    /\ pre' = Snapshot
    /\ UNCHANGED <<simvars, delivered>>

\* pub fn apply_action(&mut self, elevator_idx, action, picks) -> Result<()>
ApplyAction(elevator_idx, action, picks) ==
    LET r == Apply(elevator_idx, action, picks)
    IN  \/ /\ elevators' = r.elevators
           /\ waiting_passengers' = r.waiting_passengers
           /\ score' = r.score
           /\ delivered' = delivered \cup DeliveredAt(r.dropped, turn)
           /\ last' = Call("apply_action", elevator_idx, action, picks, r.res, 0)
           /\ pre' = Snapshot
           /\ UNCHANGED <<n, m, c, t, turn, panicked>>
        \/ /\ r.underflow
           /\ Panic(Call("apply_action", elevator_idx, action, picks, "panic", 0))

\* --------------------------------------------------------- add_passenger
\* self.waiting_passengers[floor].push(Passenger { id, arrival_turn, target_floor })
Push(queue, target, arrival_turn, id) ==
    Append(queue, Passenger(id, arrival_turn, target))

\* pub fn add_passenger(&mut self, floor, target, arrival_turn, id):
\* waiting_passengers[floor].push(..); an index past the last floor panics.
AddPassenger(floor, target, arrival_turn, id) ==
    IF floor >= n
    THEN Panic(Call("add_passenger", 0, "", <<>>, "panic", 0))
    ELSE /\ waiting_passengers' =
                [waiting_passengers EXCEPT ![floor] = Push(@, target, arrival_turn, id)]
         /\ last' = Call("add_passenger", 0, "", <<>>, "Ok", 0)
         /\ pre' = Snapshot
         /\ UNCHANGED <<n, m, c, t, turn, score, elevators, delivered, panicked>>

\* ------------------------------------------------- calculate_final_score
\* Mutant of FinalDuration: the delivery formula (with + 1) is used.
FinalDuration_PlusOne(p) == t - p.arrival_turn + 1

\* let duration = self.t - p.arrival_turn
FinalDuration(p) == t - p.arrival_turn

RECURSIVE SumFinal(_)
SumFinal(ps) ==
    IF ps = <<>> THEN 0 ELSE Square(FinalDuration(Head(ps))) + SumFinal(Tail(ps))

\* for floor_passengers in &self.waiting_passengers { for p in floor_passengers {..} }
RECURSIVE SumFloors(_)
SumFloors(k) ==
    IF k = 0 THEN 0 ELSE SumFloors(k - 1) + SumFinal(waiting_passengers[k - 1])

\* for e in &self.elevators { for p in &e.passengers {..} }
RECURSIVE SumElevators(_)
SumElevators(k) ==
    IF k = 0 THEN 0 ELSE SumElevators(k - 1) + SumFinal(elevators[k - 1].passengers)

\* Mutant of calculate_final_score: the loop over the elevators is missing.
calculate_final_score_NoElevators == score + SumFloors(n)

\* pub fn calculate_final_score(&self) -> u64
calculate_final_score == score + SumFloors(n) + SumElevators(m)

\* The caller is between two calls.
Idle == ~panicked /\ last = NoCall

\* ---------------------------------------------- the engine under any caller
\* A caller that owns the state may add passengers with fresh ids, write the
\* public field turn, apply actions and ask for the final score, in any order.
EngineAdd ==
    /\ Idle
    /\ next_id < MaxPassengers
    /\ \E floor \in 0..n, target \in 0..(n - 1), arrival_turn \in 0..t :
          /\ AddPassenger(floor, target, arrival_turn, next_id)
          /\ next_id' = IF floor >= n THEN next_id ELSE next_id + 1
    /\ UNCHANGED jvars

EngineSetTurn ==
    /\ Idle
    /\ \E k \in 0..t :
          /\ turn' = k
          /\ last' = Call("set_turn", 0, "", <<>>, "Ok", k)
          /\ pre' = Snapshot
    /\ UNCHANGED <<n, m, c, t, score, elevators, waiting_passengers,
                   next_id, delivered, panicked>>
    /\ UNCHANGED jvars

EngineApply ==
    /\ Idle
    /\ \E elevator_idx \in 0..m, action \in Actions :
          \E picks \in (IF action = "OPEN" /\ elevator_idx < m THEN PickLists
                        ELSE IF action = "OPEN" THEN {<<>>, <<0>>} ELSE {<<>>}) :
             ApplyAction(elevator_idx, action, picks)
    /\ UNCHANGED next_id
    /\ UNCHANGED jvars

EngineFinalScore ==
    /\ Idle
    /\ last' = Call("calculate_final_score", 0, "", <<>>, "Ok", calculate_final_score)
    /\ pre' = Snapshot
    /\ UNCHANGED <<simvars, next_id, delivered, panicked>>
    /\ UNCHANGED jvars

\* The caller takes the Result of the call and goes on.
EngineReturn ==
    /\ ~panicked
    /\ last # NoCall
    /\ last' = NoCall
    /\ pre' = Snapshot
    /\ UNCHANGED <<simvars, next_id, delivered, panicked>>
    /\ UNCHANGED jvars

Next == EngineAdd \/ EngineSetTurn \/ EngineApply \/ EngineFinalScore \/ EngineReturn

Spec == Init /\ [][Next]_vars

\* ====================================================== local_judge: main
\* The scenario file: N M C T lambda, then for each floor and each turn the
\* targets of the passengers arriving there.  lambda is only passed on to the
\* agent and is left out of the model.

\* The arrivals of a scenario in file order: floor-major, turn-minor.
InFileOrder(arr) ==
    \A k \in 1..(Len(arr) - 1) :
        \/ arr[k].floor < arr[k + 1].floor
        \/ arr[k].floor = arr[k + 1].floor /\ arr[k].turn <= arr[k + 1].turn

Scenarios(nn, tt) ==
    {arr \in SeqsUpTo([floor : 0..(nn - 1), turn : 0..(tt - 1), target : 0..(nn - 1)],
                      MaxPassengers) : InFileOrder(arr)}

\* Mutant of ParseScenario: the arrival turn is counted from 1.
ParseScenario_LateArrival(nn, tt, arr) ==
    LET numbered == [k \in 1..Len(arr) |->
                        [id |-> k - 1, floor |-> arr[k].floor, turn |-> arr[k].turn,
                         target |-> arr[k].target]]
        cell(f, tu) == SelectSeq(numbered, LAMBDA r : r.floor = f /\ r.turn = tu)
    IN  [f \in 0..(nn - 1) |->
            [tu \in 0..(tt - 1) |->
                [k \in 1..Len(cell(f, tu)) |->
                    Passenger(cell(f, tu)[k].id, tu + 1, cell(f, tu)[k].target)]]]

\* for i in 0..n { for turn in 0..t { .. passenger_source[i][turn].push(Passenger
\* { id: next_passenger_id, arrival_turn: turn, target_floor }) } }: the ids
\* follow the file order.
ParseScenario(nn, tt, arr) ==
    LET numbered == [k \in 1..Len(arr) |->
                        [id |-> k - 1, floor |-> arr[k].floor, turn |-> arr[k].turn,
                         target |-> arr[k].target]]
        cell(f, tu) == SelectSeq(numbered, LAMBDA r : r.floor = f /\ r.turn = tu)
    IN  [f \in 0..(nn - 1) |->
            [tu \in 0..(tt - 1) |->
                [k \in 1..Len(cell(f, tu)) |->
                    Passenger(cell(f, tu)[k].id, tu, cell(f, tu)[k].target)]]]

InitJudge ==
    /\ \E nn \in 1..MaxN, mm \in 1..MaxM, cc \in 0..MaxC, tt \in 1..MaxTurns :
          /\ New(nn, mm, cc, tt)
          /\ \E arr \in Scenarios(nn, tt) :
                /\ passenger_source = ParseScenario(nn, tt, arr)
                /\ next_id = Len(arr)
    /\ delivered = {}
    /\ panicked = FALSE
    /\ last = NoCall
    /\ pre = Snapshot
    /\ pc = "spawn" /\ jturn = 0 /\ ji = 0
    /\ child = "none" /\ action_line = <<>> /\ params = <<>> /\ sent = <<>>
    /\ nread = 0 /\ applied = <<>> /\ turn_start = Snapshot
    /\ printed = <<>> /\ io = <<>> /\ error = <<>>
    /\ agent = AgentStart

\* The error main returns with.  turn and elevator are what the message
\* names; -1 stands for a message that does not name it.
Error(kind, tu, el) == <<[kind |-> kind, turn |-> tu, elevator |-> el]>>

\* Mutant of Fail: the error is noted and the turn loop is left, not main.
Fail_BreakLoop(err) ==
    /\ pc' = "loop"
    /\ error' = err

\* return Err(..) from main, by bail! or by the ? operator
Fail(err) ==
    /\ pc' = "failed"
    /\ error' = err

\* ---- what the agent may answer: it is any program
\* The decimal tokens the agent writes for pickup indices; "x" stands for
\* every token that parse::<usize>() rejects.
Digits == <<"0", "1", "2", "3", "4", "5", "6", "7", "8", "9">>

\* format!(" {}", j) of an index list
ToTokens(picks) == [k \in 1..Len(picks) |-> Digits[picks[k] + 1]]

\* p_idx_str.parse::<usize>(): the number, or -1 for Err.
ParseUsize(tok) ==
    IF \E k \in 1..Len(Digits) : Digits[k] = tok
    THEN (CHOOSE k \in 1..Len(Digits) : Digits[k] = tok) - 1
    ELSE -1

\* A reply: the end of the stream, or a line split into its tokens.
ReplyLines ==
    {<<>>}
    \cup {<<a>> : a \in Actions}
    \cup {<<"OPEN">> \o ToTokens(picks) : picks \in PickLists}
    \cup {<<"OPEN", "x">>, <<"OPEN", "0", "x">>, <<"UP", "x">>}

Replies == {[eof |-> TRUE, tokens |-> <<>>]}
           \cup {[eof |-> FALSE, tokens |-> l] : l \in ReplyLines}

\* One event on the pipes of the agent or on the engine: op is "params" or
\* "write" (a line written), "flush", "read" (a reply line read) or "apply"
\* (apply_action_wasm called); -1 stands for no turn or no elevator.
Ev(op, tu, el) == [op |-> op, turn |-> tu, elevator |-> el]

\* ---- lines 59-72: new state, spawn the agent, write the parameter line
\* ChildStdin is not buffered: flush() always succeeds, a write may fail.
JudgeSpawn ==
    /\ UNCHANGED agent
    /\ pc = "spawn"
    /\ \/ /\ Fail(Error("spawn", -1, -1))
          /\ UNCHANGED <<child, params, io>>
       \/ /\ child' = "running"
          /\ \/ /\ params' = <<n, m, c, t>>
                /\ io' = <<Ev("params", -1, -1), Ev("flush", -1, -1)>>
                /\ pc' = "loop" /\ UNCHANGED error
             \/ /\ Fail(Error("io", -1, -1))
                /\ UNCHANGED <<params, io>>
    /\ UNCHANGED <<simvars, next_id, delivered, panicked, last, pre, jturn, ji,
                   passenger_source, action_line, sent, nread, applied,
                   turn_start, printed>>

\* ---- lines 75-80: state.turn = turn; merge this turn's arrivals
RECURSIVE PushAll(_, _)
PushAll(queue, ps) ==
    IF ps = <<>> THEN queue
    ELSE PushAll(Push(queue, Head(ps).target_floor, Head(ps).arrival_turn, Head(ps).id),
                 Tail(ps))

Merged == [f \in 0..(n - 1) |-> PushAll(waiting_passengers[f], passenger_source[f][jturn])]

Drained == [f \in 0..(n - 1) |-> [passenger_source[f] EXCEPT ![jturn] = <<>>]]

\* ---- lines 83-111: the lines of one turn, from a state st
\* write!(stdin, " {} {}", target, 0): the second number is the constant 0.
RECURSIVE PassengerFields(_)
PassengerFields(ps) ==
    IF ps = <<>> THEN <<>>
    ELSE <<Head(ps).target_floor, 0>> \o PassengerFields(Tail(ps))

FloorsLine(st) == [k \in 1..m |-> st.elevators[k - 1].floor]
ElevatorLine(st, e) ==
    <<Len(st.elevators[e].passengers)>> \o PassengerFields(st.elevators[e].passengers)
WaitingLine(st, f) ==
    <<Len(st.waiting_passengers[f])>> \o PassengerFields(st.waiting_passengers[f])

\* Mutant of StateLines: the lines of the floors are left out.
StateLines_NoFloors(st) ==
    <<FloorsLine(st)>> \o [k \in 1..m |-> ElevatorLine(st, k - 1)]

StateLines(st) ==
    <<FloorsLine(st)>>
    \o [k \in 1..m |-> ElevatorLine(st, k - 1)]
    \o [k \in 1..n |-> WaitingLine(st, k - 1)]

\* for turn in 0..t { state.turn = turn; merge; write the lines; flush }
JudgeBeginTurn ==
    /\ UNCHANGED agent
    /\ pc = "loop"
    /\ jturn < t
    /\ turn' = jturn
    /\ waiting_passengers' = Merged
    /\ passenger_source' = Drained
    /\ LET st == [turn |-> jturn, score |-> score, elevators |-> elevators,
                  waiting_passengers |-> Merged]
           lines == StateLines(st)
           wrote(k) == [j \in 1..k |-> Ev("write", jturn, -1)]
       IN  /\ pre' = st
           /\ turn_start' = st
           /\ \/ /\ sent' = lines
                 /\ io' = io \o wrote(Len(lines)) \o <<Ev("flush", jturn, -1)>>
                 /\ pc' = "read" /\ UNCHANGED error
              \/ \E k \in 0..(Len(lines) - 1) :
                    /\ sent' = SubSeq(lines, 1, k)
                    /\ io' = io \o wrote(k)
                    /\ Fail(Error("io", -1, -1))
    /\ last' = NoCall
    /\ ji' = 0
    /\ applied' = <<>>
    /\ UNCHANGED <<n, m, c, t, score, elevators, next_id, delivered, panicked,
                   jturn, child, action_line, params, nread, printed>>

\* Mutant of Terminated: the message names the last elevator that was served.
Terminated_Previous(tu, i) == Error("terminated", tu, IF i > 0 THEN i - 1 ELSE i)

\* bail!("Agent process terminated unexpectedly at turn {} for elevator {}", turn, i)
Terminated(tu, i) == Error("terminated", tu, i)

\* ---- lines 115-123: read the reply line of elevator i; read_line(..)? also
\* returns early on an I/O error (a line that is not UTF-8, for one).
JudgeRead ==
    /\ UNCHANGED agent
    /\ pc = "read"
    /\ \/ \E reply \in Replies :
             IF reply.eof
             THEN /\ Fail(Terminated(jturn, ji))
                  /\ UNCHANGED <<action_line, nread, io>>
             ELSE /\ action_line' = reply.tokens
                  /\ nread' = nread + 1
                  /\ io' = Append(io, Ev("read", jturn, ji))
                  /\ pc' = "apply"
                  /\ UNCHANGED error
       \/ /\ Fail(Error("io", -1, -1))
          /\ UNCHANGED <<action_line, nread, io>>
    /\ UNCHANGED <<simvars, next_id, delivered, panicked, last, pre, jturn, ji,
                   passenger_source, child, params, sent, applied, turn_start,
                   printed>>

\* ---- lines 127-141: split the line, parse the pickup indices of an OPEN
ParsePicks(parts) ==
    IF parts[1] = "OPEN"
    THEN [k \in 1..(Len(parts) - 1) |-> ParseUsize(parts[k + 1])]
    ELSE <<>>

\* Mutant of ReplyElevator: the replies of a turn are applied in reverse order.
ReplyElevator_Reversed(k) == m - 1 - k

\* The k-th reply line of a turn (k from 0) is the action of elevator k.
ReplyElevator(k) == k

\* Mutant of NextReply: the turn loop steps by two.
NextReply_SkipTurn ==
    /\ ji' = ji + 1
    /\ IF ji + 1 < m
       THEN pc' = "read" /\ jturn' = jturn
       ELSE pc' = "loop" /\ jturn' = jturn + 2

\* for i in 0..m: the body is run for i, then i + 1, up to m - 1; then the
\* turn loop goes to the next turn.
NextReply ==
    /\ ji' = ji + 1
    /\ IF ji + 1 < m
       THEN pc' = "read" /\ jturn' = jturn
       ELSE pc' = "loop" /\ jturn' = jturn + 1

\* ---- lines 127-145: parse the line and apply it
JudgeApply ==
    /\ UNCHANGED agent
    /\ pc = "apply"
    /\ action_line' = <<>>
    /\ IF action_line = <<>>
       THEN /\ Fail(Error("empty", jturn, ji))
            /\ UNCHANGED <<simvars, delivered, panicked, last, pre, jturn, ji, applied,
                           io>>
       ELSE LET picks == ParsePicks(action_line)
            IN  IF \E k \in 1..Len(picks) : picks[k] = -1
                THEN /\ Fail(Error("format", -1, -1))
                     /\ UNCHANGED <<simvars, delivered, panicked, last, pre, jturn, ji,
                                    applied, io>>
                ELSE /\ ApplyAction(ReplyElevator(ji), action_line[1], picks)
                     /\ applied' = Append(applied, ReplyElevator(ji))
                     /\ io' = Append(io, Ev("apply", jturn, ReplyElevator(ji)))
                     /\ IF last'.res = "Ok"
                        THEN NextReply /\ UNCHANGED error
                        ELSE /\ Fail(Error("action", jturn, ji))
                             /\ UNCHANGED <<jturn, ji>>
    /\ UNCHANGED <<next_id, passenger_source, child, params, sent, nread,
                   turn_start, printed>>

\* ---- lines 153-155: print the score, kill the agent
JudgeFinish ==
    /\ UNCHANGED agent
    /\ pc = "loop"
    /\ jturn >= t
    /\ printed' = Append(printed, calculate_final_score)
    /\ child' = "killed"
    /\ pc' = "done"
    /\ UNCHANGED <<simvars, next_id, delivered, panicked, last, pre, jturn, ji,
                   passenger_source, action_line, params, sent, nread, applied,
                   turn_start, io, error>>

NextJudge == JudgeSpawn \/ JudgeBeginTurn \/ JudgeRead \/ JudgeApply \/ JudgeFinish

SpecJudge == InitJudge /\ [][NextJudge]_vars

\* The runs whose end is checked: the scenarios with at most MaxArrivalsFair
\* arrivals.
InitJudgeFair == InitJudge /\ next_id <= MaxArrivalsFair

\* main is one sequential program and read_line returns whenever the agent
\* writes a line or closes its output: a step that can be taken is taken.
SpecJudgeFair == InitJudgeFair /\ [][NextJudge]_vars /\ WF_vars(NextJudge)

\* ============================================ sample_agent against the driver
\* let n = 10; // fixed N: the floor lines sample_agent reads every turn
SampleFloors == 10

\* generate_input.rs: the scenario the generator writes (n, m, c, t)
GeneratedScenario == [n |-> 10, m |-> 3, c |-> 10, t |-> 100]

\* No arrival on any floor at any turn, for the generated parameters and for
\* small ones; the number of floors is the one sample_agent expects.
StayScenarios ==
    {GeneratedScenario}
    \cup {[n |-> SampleFloors, m |-> mm, c |-> cc, t |-> tt] :
             mm \in 1..MaxM, cc \in 0..MaxC, tt \in 1..MaxTurns}

InitStay ==
    /\ \E sc \in StayScenarios :
          /\ New(sc.n, sc.m, sc.c, sc.t)
          /\ passenger_source = ParseScenario(sc.n, sc.t, <<>>)
    /\ next_id = 0
    /\ delivered = {}
    /\ panicked = FALSE
    /\ last = NoCall
    /\ pre = Snapshot
    /\ pc = "spawn" /\ jturn = 0 /\ ji = 0
    /\ child = "none" /\ action_line = <<>> /\ params = <<>> /\ sent = <<>>
    /\ nread = 0 /\ applied = <<>> /\ turn_start = Snapshot
    /\ printed = <<>> /\ io = <<>> /\ error = <<>>
    /\ agent = AgentStart

\* The lines the driver has written to the stdin of the agent so far.
LinesWritten == Len(SelectSeq(io, LAMBDA ev : ev.op \in {"params", "write"}))

\* sample_agent lines 8-11: read the parameter line, take m and t from it.
AgentHeader ==
    /\ agent.pc = "header"
    /\ LinesWritten - agent.lines >= 1
    /\ agent' = [agent EXCEPT !.pc = "turn", !.lines = @ + 1,
                              !.m = params[2], !.t = params[4]]
    /\ UNCHANGED <<simvars, next_id, delivered, panicked, last, pre,
                   pc, jturn, ji, passenger_source, child, action_line, params,
                   sent, nread, applied, turn_start, printed, io, error>>

\* sample_agent lines 13-32, one pass of "for _ in 0..t": read the floors
\* line, m elevator lines and 10 floor lines (blocking until they are there),
\* then println!("STAY") m times; after t passes main returns.
AgentTurn ==
    /\ agent.pc = "turn"
    /\ IF agent.turns >= agent.t
       THEN agent' = [agent EXCEPT !.pc = "exited"]
       ELSE /\ LinesWritten - agent.lines >= 1 + agent.m + SampleFloors
            /\ agent' = [agent EXCEPT !.lines = @ + 1 + agent.m + SampleFloors,
                                      !.replies = @ + agent.m,
                                      !.turns = @ + 1]
    /\ UNCHANGED <<simvars, next_id, delivered, panicked, last, pre,
                   pc, jturn, ji, passenger_source, child, action_line, params,
                   sent, nread, applied, turn_start, printed, io, error>>

\* The agent is started and keeps its stdin open while it runs: the spawn and
\* the writes of the driver succeed.
StaySpawn == JudgeSpawn /\ error' = <<>>
StayBeginTurn == JudgeBeginTurn /\ error' = <<>>

\* read_line returns the next line the agent has printed, blocks while there
\* is none and the agent runs, and returns 0 once the agent has exited.
StayRead ==
    /\ JudgeRead
    /\ IF agent.replies > nread
       THEN action_line' = <<"STAY">> /\ pc' = "apply"
       ELSE agent.pc = "exited" /\ error' = Terminated(jturn, ji)

NextStay ==
    \/ StaySpawn \/ StayBeginTurn \/ AgentHeader \/ AgentTurn \/ StayRead
    \/ JudgeApply \/ JudgeFinish

SpecStay == InitStay /\ [][NextStay]_vars

\* ============================================ greedy_agent against the driver
\* greedy_agent.rs before it has read anything: n, m, c, t come from the
\* parameter line, out holds the lines it has printed.
GreedyStart ==
    [pc |-> "header", n |-> 0, m |-> 0, c |-> 0, t |-> 0, turns |-> 0, lines |-> 0,
     replies |-> 0, out |-> <<>>]

\* The scenarios in which no passenger's destination is its own floor (what
\* generate_input.rs writes: while target == i { resample }).
GreedyScenarios(nn, tt) ==
    {arr \in Scenarios(nn, tt) : \A k \in 1..Len(arr) : arr[k].target # arr[k].floor}

InitGreedy ==
    /\ \E nn \in 1..MaxN, mm \in 1..MaxM, cc \in 0..MaxC, tt \in 1..MaxTurns :
          /\ New(nn, mm, cc, tt)
          /\ \E arr \in GreedyScenarios(nn, tt) :
                /\ passenger_source = ParseScenario(nn, tt, arr)
                /\ next_id = Len(arr)
    /\ delivered = {}
    /\ panicked = FALSE
    /\ last = NoCall
    /\ pre = Snapshot
    /\ pc = "spawn" /\ jturn = 0 /\ ji = 0
    /\ child = "none" /\ action_line = <<>> /\ params = <<>> /\ sent = <<>>
    /\ nread = 0 /\ applied = <<>> /\ turn_start = Snapshot
    /\ printed = <<>> /\ io = <<>> /\ error = <<>>
    /\ agent = GreedyStart

\* greedy_agent lines 9-20: read the parameter line.
GreedyHeader ==
    /\ agent.pc = "header"
    /\ LinesWritten - agent.lines >= 1
    /\ agent' = [agent EXCEPT !.pc = "turn", !.lines = @ + 1,
                              !.n = params[1], !.m = params[2],
                              !.c = params[3], !.t = params[4]]
    /\ UNCHANGED <<simvars, next_id, delivered, panicked, last, pre,
                   pc, jturn, ji, passenger_source, child, action_line, params,
                   sent, nread, applied, turn_start, printed, io, error>>

\* for j in 0..count { ps.push(parts[2 * j + 1]) }: the target floors of a
\* line "count target elapsed target elapsed ..".
Targets(parts) == [j \in 1..parts[1] |-> parts[2 * j]]

\* my_passengers.contains(&current_floor)
Contains(ps, x) == \E k \in 1..Len(ps) : ps[k] = x

\* Mutant of AvailableToPick: what the elevators served before have asked
\* for is not subtracted.
AvailableToPick_IgnorePicked(waiting_here, picked) == Len(waiting_here)

\* let available_to_pick = if waiting_here.len() > picked_on_floor[current_floor]
\*     { waiting_here.len() - picked_on_floor[current_floor] } else { 0 }
AvailableToPick(waiting_here, picked) ==
    IF Len(waiting_here) > picked THEN Len(waiting_here) - picked ELSE 0

\* (f as isize - current_floor as isize).unsigned_abs()
Dist(f, current_floor) == IF f >= current_floor THEN f - current_floor ELSE current_floor - f

\* lines 109-119: the first floor, in index order, among the nearest floors
\* with a waiting passenger; -1 for None.
BestFloor(floor_waiting, current_floor, nn) ==
    LET busy == {f \in 0..(nn - 1) : floor_waiting[f + 1] # <<>>}
    IN  IF busy = {} THEN -1
        ELSE CHOOSE f \in busy :
                \A g \in busy :
                   \/ Dist(f, current_floor) < Dist(g, current_floor)
                   \/ Dist(f, current_floor) = Dist(g, current_floor) /\ f <= g

\* lines 99-130: the move of an elevator that does not open.
GreedyMove(my_passengers, floor_waiting, current_floor, nn) ==
    IF my_passengers # <<>>
    THEN IF my_passengers[1] > current_floor THEN <<"UP">> ELSE <<"DOWN">>
    ELSE LET f == BestFloor(floor_waiting, current_floor, nn)
         IN  IF f = -1 THEN <<"STAY">>
             ELSE IF f > current_floor THEN <<"UP">> ELSE <<"DOWN">>

\* lines 65-131, for i in 0..m from elevator i on: the lines printed, given
\* what the elevators before i have asked for on each floor.
RECURSIVE GreedyDecision(_, _, _, _, _, _, _, _)
GreedyDecision(i, h, elevator_passengers, floor_waiting, picked_on_floor, nn, mm, cc) ==
    IF i >= mm THEN <<>>
    ELSE LET current_floor == h[i + 1]
             my_passengers == elevator_passengers[i + 1]
             waiting_here == floor_waiting[current_floor + 1]
             has_delivery == Contains(my_passengers, current_floor)
             available_to_pick == AvailableToPick(waiting_here, picked_on_floor[current_floor])
             can_pickup == Len(my_passengers) < cc /\ available_to_pick > 0
             space == cc - Len(my_passengers)
             num_to_pick == IF can_pickup THEN Min(space, available_to_pick) ELSE 0
             output == IF has_delivery \/ can_pickup
                       THEN <<"OPEN">> \o ToTokens([j \in 1..num_to_pick |-> j - 1])
                       ELSE GreedyMove(my_passengers, floor_waiting, current_floor, nn)
             picked == [picked_on_floor EXCEPT ![current_floor] = @ + num_to_pick]
         IN  <<output>> \o GreedyDecision(i + 1, h, elevator_passengers, floor_waiting,
                                          picked, nn, mm, cc)

\* greedy_agent lines 22-132, one pass of "for _ in 0..t": read the floors
\* line, m elevator lines and n floor lines (blocking until they are there),
\* decide, print one line for each elevator; after t passes main returns.
GreedyTurn ==
    /\ agent.pc = "turn"
    /\ IF agent.turns >= agent.t
       THEN agent' = [agent EXCEPT !.pc = "exited"]
       ELSE /\ LinesWritten - agent.lines = 1 + agent.m + agent.n
            /\ Len(sent) = 1 + agent.m + agent.n
            /\ LET h == sent[1]
                   elevator_passengers == [k \in 1..agent.m |-> Targets(sent[1 + k])]
                   floor_waiting == [k \in 1..agent.n |-> Targets(sent[1 + agent.m + k])]
                   picked_on_floor == [f \in 0..(agent.n - 1) |-> 0]
                   lines == GreedyDecision(0, h, elevator_passengers, floor_waiting,
                                           picked_on_floor, agent.n, agent.m, agent.c)
               IN  agent' = [agent EXCEPT !.lines = @ + 1 + agent.m + agent.n,
                                          !.replies = @ + agent.m,
                                          !.out = @ \o lines,
                                          !.turns = @ + 1]
    /\ UNCHANGED <<simvars, next_id, delivered, panicked, last, pre,
                   pc, jturn, ji, passenger_source, child, action_line, params,
                   sent, nread, applied, turn_start, printed, io, error>>

\* The agent is started and keeps its stdin open while it runs: the spawn and
\* the writes of the driver succeed.
GreedySpawn == JudgeSpawn /\ error' = <<>>
GreedyBeginTurn == JudgeBeginTurn /\ error' = <<>>

\* read_line returns the next line the agent has printed, blocks while there
\* is none and the agent runs, and returns 0 once the agent has exited.
GreedyRead ==
    /\ JudgeRead
    /\ IF agent.replies > nread
       THEN action_line' = agent.out[nread + 1] /\ pc' = "apply"
       ELSE agent.pc = "exited" /\ error' = Terminated(jturn, ji)

NextGreedy ==
    \/ GreedySpawn \/ GreedyBeginTurn \/ GreedyHeader \/ GreedyTurn \/ GreedyRead
    \/ JudgeApply \/ JudgeFinish

SpecGreedy == InitGreedy /\ [][NextGreedy]_vars

\* ================================================================= claims
Floors == 0..(n - 1)
Elevs == 0..(m - 1)

Range(s) == {s[k] : k \in 1..Len(s)}

\* Sum of a function over a finite subset of its domain.
RECURSIVE SumOver(_, _)
SumOver(S, F) ==
    IF S = {} THEN 0
    ELSE LET x == CHOOSE y \in S : TRUE IN F[x] + SumOver(S \ {x}, F)

\* Every place a passenger id occurs: a queue position, an aboard position
\* or the delivered set.
PlacesWaiting(id) ==
    UNION {{<<"floor", f, k>> :
              k \in {j \in 1..Len(waiting_passengers[f]) : waiting_passengers[f][j].id = id}} :
           f \in Floors}
PlacesAboard(id) ==
    UNION {{<<"elevator", e, k>> :
              k \in {j \in 1..Len(elevators[e].passengers) : elevators[e].passengers[j].id = id}} :
           e \in Elevs}
PlacesDelivered(id) == {<<"delivered", d>> : d \in {x \in delivered : x.id = id}}

AllIds ==
    UNION {{p.id : p \in Range(waiting_passengers[f])} : f \in Floors}
    \cup UNION {{p.id : p \in Range(elevators[e].passengers)} : e \in Elevs}
    \cup {d.id : d \in delivered}

DeliveryTerm(d) == (d.at - d.arrival_turn + 1) * (d.at - d.arrival_turn + 1)

\* C1: every passenger ever added (ids 0..next_id-1) is in exactly one place
\* among the floor queues, the aboard lists and the delivered set; no other id
\* exists; and the delivered ones are exactly those the score has counted.
C1_Conservation ==
    /\ AllIds = 0..(next_id - 1)
    /\ \A id \in 0..(next_id - 1) :
          Cardinality(PlacesWaiting(id) \cup PlacesAboard(id) \cup PlacesDelivered(id)) = 1
    /\ score = SumOver(delivered, [d \in delivered |-> DeliveryTerm(d)])

\* C1 witness: all passengers have been added, one has been delivered and the
\* last OPEN has moved another from a queue into an elevator.
C1_Witness ==
    /\ last.op = "apply_action" /\ last.action = "OPEN" /\ last.res = "Ok"
    /\ next_id = MaxPassengers
    /\ delivered # {}
    /\ \E e \in Elevs : Len(elevators[e].passengers) > Len(pre.elevators[e].passengers)

\* C2: no elevator ever carries more passengers than its capacity C.
C2_Capacity ==
    \A e \in Elevs :
        /\ elevators[e].capacity = c
        /\ Len(elevators[e].passengers) <= c

\* C2 witness: an OPEN that asked for more valid pickups than fit has filled
\* the elevator exactly to its capacity and left the rest waiting.
C2_Witness ==
    /\ last.op = "apply_action" /\ last.action = "OPEN" /\ last.res = "Ok"
    /\ last.elevator_idx \in Elevs
    /\ LET e == last.elevator_idx
           f == elevators[e].floor
       IN  /\ c >= 1
           /\ Len(elevators[e].passengers) = c
           /\ Len(last.picks) > c - Len(pre.elevators[e].passengers)
           /\ Cardinality(Range(last.picks)) = Len(last.picks)
           /\ Len(waiting_passengers[f]) >= 1
           /\ Len(waiting_passengers[f]) < Len(pre.waiting_passengers[f])

\* The last call was apply_action(e, action, ..) on an existing elevator and
\* the process survived it.
Applied(action) ==
    /\ last.op = "apply_action"
    /\ last.action = action
    /\ last.elevator_idx \in Elevs
    /\ last.res # "panic"

\* C3: every elevator's floor stays in [0, N-1]; UP at the top floor and DOWN
\* at floor 0 leave the floor where it is and are not errors; otherwise UP
\* adds exactly one to the floor and DOWN subtracts exactly one.
C3_FloorBounds ==
    /\ \A e \in Elevs : elevators[e].floor \in 0..(n - 1)
    /\ Applied("UP") =>
          LET e == last.elevator_idx IN
          /\ last.res = "Ok"
          /\ elevators[e].floor =
                IF pre.elevators[e].floor = n - 1 THEN n - 1
                ELSE pre.elevators[e].floor + 1
    /\ Applied("DOWN") =>
          LET e == last.elevator_idx IN
          /\ last.res = "Ok"
          /\ elevators[e].floor =
                IF pre.elevators[e].floor = 0 THEN 0
                ELSE pre.elevators[e].floor - 1

\* C3 witness: UP was applied to an elevator standing at the top floor of a
\* building with more than one floor.
C3_Witness ==
    /\ Applied("UP")
    /\ n >= 2
    /\ pre.elevators[last.elevator_idx].floor = n - 1
    /\ elevators[last.elevator_idx].floor = n - 1

\* The aboard passengers of the elevator of the last call, before the call,
\* that were (Arrived) or were not (Staying) at their destination.
Arrived ==
    LET e == last.elevator_idx
    IN  {p \in Range(pre.elevators[e].passengers) :
            p.target_floor = pre.elevators[e].floor}
Staying ==
    LET e == last.elevator_idx
    IN  SelectSeq(pre.elevators[e].passengers,
                  LAMBDA p : p.target_floor # pre.elevators[e].floor)

\* C4: an OPEN at turn b at floor f removes from the elevator every aboard
\* passenger whose destination is f and adds (b - a + 1)^2 to the score for
\* each of them (a its arrival turn, a <= b); the others stay aboard, in
\* order, and add nothing.
C4_DeliveryScore ==
    Applied("OPEN") =>
       LET e == last.elevator_idx
           after == elevators[e].passengers
       IN  /\ Range(after) \cap Arrived = {}
           /\ Len(after) >= Len(Staying)
           /\ SubSeq(after, 1, Len(Staying)) = Staying
           /\ (\A p \in Arrived : p.arrival_turn <= turn) =>
                 score = pre.score +
                    SumOver(Arrived,
                            [p \in Arrived |->
                                (turn - p.arrival_turn + 1) * (turn - p.arrival_turn + 1)])

\* C4 witness: an OPEN delivered a passenger one turn after it arrived (4 is
\* added) while another passenger stayed aboard.
C4_Witness ==
    /\ Applied("OPEN")
    /\ \E p \in Arrived : p.arrival_turn < turn
    /\ Len(Staying) >= 1
    /\ score = pre.score + 4

\* Every passenger still in a floor queue or aboard an elevator.
Present ==
    UNION {Range(waiting_passengers[f]) : f \in Floors}
    \cup UNION {Range(elevators[e].passengers) : e \in Elevs}

\* C5: calculate_final_score returns the cumulative score plus (T - a)^2 for
\* every passenger still waiting or aboard; a passenger with a = T adds 0 and
\* the delivered ones add nothing more.
C5_FinalScore ==
    last.op = "calculate_final_score" =>
       last.value = score +
          SumOver(Present,
                  [p \in Present |-> (t - p.arrival_turn) * (t - p.arrival_turn)])

\* C5 witness: the final score was computed with a passenger that arrived at
\* turn T waiting on a floor and an earlier one aboard an elevator.
C5_Witness ==
    /\ last.op = "calculate_final_score"
    /\ \E f \in Floors : \E p \in Range(waiting_passengers[f]) : p.arrival_turn = t
    /\ \E e \in Elevs : \E p \in Range(elevators[e].passengers) : p.arrival_turn < t
    /\ last.value = score + 1

\* The queue of the floor the elevator of the last call stood at, before and
\* after the call.
QueueBefore == pre.waiting_passengers[pre.elevators[last.elevator_idx].floor]
QueueAfter == waiting_passengers[pre.elevators[last.elevator_idx].floor]

\* The passengers the last call moved into its elevator.
Moved ==
    Range(elevators[last.elevator_idx].passengers)
        \ Range(pre.elevators[last.elevator_idx].passengers)

\* The passengers at the supplied positions of the queue as it was when the
\* OPEN started.
Supplied ==
    {QueueBefore[last.picks[i] + 1] :
        i \in {j \in 1..Len(last.picks) : last.picks[j] < Len(QueueBefore)}}

\* C7 (as claimed): after a successful OPEN every passenger moved into the
\* elevator stood at one of the supplied positions of the queue as it was at
\* the start of the OPEN, and the passengers left keep their order.
C7_PickupPositions ==
    (Applied("OPEN") /\ last.res = "Ok") =>
        /\ Moved \subseteq Supplied
        /\ QueueAfter = SelectSeq(QueueBefore, LAMBDA p : p \notin Moved)

\* C8 (as claimed): an OPEN that fails on a pickup index has moved no
\* passenger: the queue is unchanged and the elevator holds exactly the
\* passengers the drop-off left.
C8_NoPartialPickup ==
    (Applied("OPEN") /\ last.res = "InvalidPassenger") =>
        /\ waiting_passengers = pre.waiting_passengers
        /\ elevators[last.elevator_idx].passengers = Staying

\* C9: apply_action with an elevator index >= M, or with a token other than
\* UP, DOWN, STAY, OPEN, returns an error and changes nothing.
C9_InvalidCall ==
    (/\ last.op = "apply_action"
     /\ \/ last.elevator_idx >= m
        \/ last.action \notin {"UP", "DOWN", "STAY", "OPEN"}) =>
        /\ last.res = IF last.elevator_idx >= m THEN "InvalidElevator" ELSE "UnknownAction"
        /\ Snapshot = pre

\* C9 witness: an unknown token was sent to an existing elevator that carries
\* a passenger while another passenger waits.
C9_Witness ==
    /\ Applied("JUMP")
    /\ last.res = "UnknownAction"
    /\ elevators[last.elevator_idx].passengers # <<>>
    /\ \E f \in Floors : waiting_passengers[f] # <<>>

\* C10 (as claimed): an OPEN fails with a pickup-index error if and only if
\* some supplied index is >= the length the queue had when the OPEN started.
C10_SnapshotRangeCheck ==
    Applied("OPEN") =>
        (last.res = "InvalidPassenger"
            <=> \E i \in 1..Len(last.picks) : last.picks[i] >= Len(QueueBefore))

\* The reply lines applied (or refused by the engine) since the run began.
AppliedSoFar ==
    IF pc \in {"loop", "done"} THEN jturn * m ELSE jturn * m + Len(applied)

\* The passengers aboard some elevator when the last call was made.
AboardBefore == UNION {Range(pre.elevators[e].passengers) : e \in Elevs}

\* C6: within a turn the driver applies the replies in elevator order
\* 0..M-1, each one before the next line is read, and the pickup indices of
\* elevator i's OPEN are resolved against the queue as the actions of
\* elevators 0..i-1 of the same turn left it.
C6_Sequential ==
    /\ applied = [k \in 1..Len(applied) |-> k - 1]
    /\ Len(applied) <= m
    /\ nread - AppliedSoFar \in {0, 1}
    /\ nread - AppliedSoFar = 1 <=>
          \/ pc = "apply"
          \/ pc = "failed" /\ error[1].kind \in {"empty", "format"}
    /\ last.op = "apply_action" =>
          /\ last.elevator_idx = Len(applied) - 1
          /\ last.action = "OPEN" /\ last.res # "InvalidElevator" =>
                QueueBefore =
                   SelectSeq(turn_start.waiting_passengers[
                                 pre.elevators[last.elevator_idx].floor],
                             LAMBDA p : p \notin AboardBefore)

\* C6 witness: in one turn elevator 0 took position 0 of a queue and then
\* elevator 1's OPEN with index 0 took the passenger that stood at position 1
\* when the turn began.
C6_Witness ==
    /\ pc \in {"read", "loop"}
    /\ Applied("OPEN") /\ last.res = "Ok"
    /\ last.elevator_idx = 1
    /\ last.picks = <<0>>
    /\ applied = <<0, 1>>
    /\ LET q == turn_start.waiting_passengers[pre.elevators[1].floor]
       IN  /\ Len(q) >= 2
           /\ Moved = {q[2]}
           /\ q[1] \in Range(elevators[0].passengers)

\* No index occurs twice in the list.
Distinct(s) == \A i, j \in 1..Len(s) : i # j => s[i] # s[j]

\* The k largest members of a set of numbers.
Highest(S, k) == {x \in S : Cardinality({y \in S : y > x}) < k}

\* The free slots of the elevator of the last call once its drop-off is done.
FreeAfterDropOff == pre.elevators[last.elevator_idx].capacity - Len(Staying)

\* C11: an OPEN whose pickup indices are distinct and all in range of the
\* queue succeeds whatever the free capacity; with k free slots after the
\* drop-off and p indices it picks up exactly min(k, p) passengers, those at
\* the min(k, p) highest supplied positions, and every other passenger of the
\* queue, the skipped ones included, is still in the queue, in order.
C11_SilentSkip ==
    (/\ Applied("OPEN")
     /\ Distinct(last.picks)
     /\ \A i \in 1..Len(last.picks) : last.picks[i] < Len(QueueBefore)) =>
        LET count == Min(FreeAfterDropOff, Len(last.picks))
            taken == {QueueBefore[i + 1] : i \in Highest(Range(last.picks), count)}
        IN  /\ last.res = "Ok"
            /\ FreeAfterDropOff >= 0
            /\ Moved = taken
            /\ Cardinality(Moved) = count
            /\ Len(elevators[last.elevator_idx].passengers) = Len(Staying) + count
            /\ QueueAfter = SelectSeq(QueueBefore, LAMBDA p : p \notin taken)

\* C11 witness: an OPEN listing positions 0 and 1, in that order, for an
\* elevator with one free slot took the passenger of position 1 and left the
\* one of position 0 waiting.
C11_Witness ==
    /\ Applied("OPEN") /\ last.res = "Ok"
    /\ last.picks = <<0, 1>>
    /\ Len(QueueBefore) = 2
    /\ FreeAfterDropOff = 1
    /\ Moved = {QueueBefore[2]}
    /\ QueueAfter = <<QueueBefore[1]>>

\* The events of a whole run in lock step, up to the end of turn tu - 1: the
\* parameter line, then for every turn 1 + M + N lines written, one flush,
\* and for each elevator in order one line read and applied.
RECURSIVE LockStep(_)
LockStep(tu) ==
    IF tu = 0 THEN <<Ev("params", -1, -1), Ev("flush", -1, -1)>>
    ELSE LockStep(tu - 1)
         \o [k \in 1..(1 + m + n) |-> Ev("write", tu - 1, -1)]
         \o <<Ev("flush", tu - 1, -1)>>
         \o [k \in 1..(2 * m) |->
                Ev(IF k % 2 = 1 THEN "read" ELSE "apply", tu - 1, (k - 1) \div 2)]

IsPrefix(s, full) == Len(s) <= Len(full) /\ s = SubSeq(full, 1, Len(s))

\* The events of one kind, or of one kind and one turn, so far.
EventsOf(op) == SelectSeq(io, LAMBDA ev : ev.op = op)
EventsAt(op, tu) == SelectSeq(io, LAMBDA ev : ev.op = op /\ ev.turn = tu)

\* C12: the driver writes the parameter line once, before turn 0; in every
\* turn it writes exactly 1 + M + N state lines and flushes before it reads a
\* reply of that turn, then reads exactly M reply lines, each applied before
\* the next is read, and writes nothing for the next turn before all M
\* replies are read and applied: whatever the run does, its events are the
\* beginning of the lock-step sequence, and all of it when the run completes.
C12_LockStep ==
    /\ IsPrefix(io, LockStep(t))
    /\ pc = "done" => io = LockStep(t)
    /\ pc \in {"read", "apply", "loop", "done"} => Len(EventsOf("params")) = 1
    /\ pc \in {"read", "apply"} =>
          /\ Len(sent) = 1 + m + n
          /\ Len(EventsAt("write", jturn)) = 1 + m + n
          /\ Len(EventsAt("read", jturn)) = ji + (IF pc = "apply" THEN 1 ELSE 0)
          /\ \A tu \in (jturn + 1)..(t - 1) : EventsAt("write", tu) = <<>>
    /\ pc = "loop" =>
          /\ \A tu \in 0..(jturn - 1) :
                Len(EventsAt("read", tu)) = m /\ Len(EventsAt("apply", tu)) = m
          /\ \A tu \in jturn..(t - 1) : EventsAt("write", tu) = <<>>

\* C12 witness: a run of two elevators on two floors is reading the second
\* reply of its second turn: ten state lines are written, three replies read.
C12_Witness ==
    /\ pc = "read" /\ jturn = 1 /\ ji = 1
    /\ m = 2 /\ n = 2
    /\ Len(EventsOf("write")) = 10
    /\ Len(EventsOf("read")) = 3
    /\ io[Len(io)] = Ev("apply", 1, 0)

\* The entries of a passenger list as the protocol states them: for each
\* passenger its destination floor, then the turns since its arrival.
ElapsedFields(ps, tu) ==
    [k \in 1..(2 * Len(ps)) |->
        IF k % 2 = 1 THEN ps[(k + 1) \div 2].target_floor
        ELSE tu - ps[(k + 1) \div 2].arrival_turn]

\* C13 (as claimed): in the state lines of turn t every passenger entry,
\* aboard or waiting, is the destination floor followed by t - arrival_turn.
C13_ElapsedTime ==
    pc \in {"read", "apply"} =>
        /\ \A e \in Elevs :
              sent[1 + e + 1] =
                 <<Len(turn_start.elevators[e].passengers)>>
                 \o ElapsedFields(turn_start.elevators[e].passengers, jturn)
        /\ \A f \in Floors :
              sent[1 + m + f + 1] =
                 <<Len(turn_start.waiting_passengers[f])>>
                 \o ElapsedFields(turn_start.waiting_passengers[f], jturn)

\* The run has failed with an error of this kind.
Failed(kind) == pc = "failed" /\ error # <<>> /\ error[1].kind = kind

\* C14: when the output of the agent ends before the reply of elevator i of
\* turn t is read, the run fails with an error naming exactly t and i: the
\* t * M + i replies before it were all read and applied, in order, and
\* nothing was applied after them.
C14_PrematureEnd ==
    Failed("terminated") =>
        LET tu == error[1].turn
            i == error[1].elevator
        IN  /\ tu \in 0..(t - 1) /\ i \in 0..(m - 1)
            /\ nread = tu * m + i
            /\ Len(EventsOf("apply")) = tu * m + i
            /\ EventsAt("apply", tu) = [k \in 1..i |-> Ev("apply", tu, k - 1)]
            /\ applied = [k \in 1..i |-> k - 1]
            /\ io[Len(io)] = IF i = 0 THEN Ev("flush", tu, -1) ELSE Ev("apply", tu, i - 1)
            /\ Len(EventsAt("write", tu)) = 1 + m + n
            /\ printed = <<>>

\* C14 witness: the output ended where the reply of elevator 1 of turn 1 was
\* due, after three replies had been applied.
C14_Witness ==
    /\ Failed("terminated")
    /\ error[1].turn = 1 /\ error[1].elevator = 1
    /\ m = 2
    /\ nread = 3

\* A reply line with a token after the action keyword that is not a number.
Unparseable(line) ==
    \E k \in 2..Len(line) : ParseUsize(line[k]) = -1

\* C15 (as claimed): a reply line that is empty, or that has a non-numeric
\* token after its action keyword, aborts the run with an error that reports
\* the turn and the elevator the line was read for; it is never applied.
C15_BadReply ==
    [][(pc = "apply" /\ (action_line = <<>> \/ Unparseable(action_line))) =>
          /\ pc' = "failed"
          /\ error' # <<>>
          /\ error'[1].turn = jturn
          /\ error'[1].elevator = ji
          /\ <<simvars, applied>>' = <<simvars, applied>>]_vars

\* C16: a score is reported if and only if all T * M replies were read and
\* every action was applied successfully; once main has returned an error
\* nothing is applied, written, read or reported any more.
C16_NoPartialScore ==
    [][/\ error # <<>> => UNCHANGED vars
       /\ printed' # <<>> <=> pc' = "done"
       /\ printed' # <<>> =>
             /\ error' = <<>>
             /\ nread' = t * m
             /\ Len(SelectSeq(io', LAMBDA ev : ev.op = "apply")) = t * m
             /\ Len(printed') = 1
       /\ (error' = <<>> /\ nread' = t * m /\ pc' # "apply") =>
             /\ pc' \in {"loop", "done"}
             /\ jturn' = t
       /\ (pc = "loop" /\ jturn = t) =>
             /\ printed' = <<calculate_final_score>>
             /\ simvars' = simvars
       /\ error' # <<>> => pc' = "failed" /\ printed' = <<>>]_vars

\* C16 witness: a run that had already scored a delivery was aborted by a
\* rejected action, and no score was printed.
C16_Witness ==
    /\ Failed("action")
    /\ score > 0
    /\ nread >= 2
    /\ printed = <<>>

\* C17 (as claimed): once the agent process has been started, every way the
\* run ends, with a score or with an error, finds the process terminated by
\* the driver.
C17_Cleanup ==
    (pc \in {"done", "failed"} /\ child # "none") => child = "killed"

\* C18: with no arrival on any floor at any turn and an agent that replies
\* STAY for every elevator on every turn, the run never fails and never
\* stalls before its end, all T turns are run and the reported score is 0.
C18_ZeroArrivalStay ==
    /\ error = <<>>
    /\ pc # "failed"
    /\ score = 0
    /\ AllIds = {}
    /\ pc # "done" => ENABLED NextStay
    /\ pc = "done" =>
          /\ jturn = t
          /\ nread = t * m
          /\ printed = <<0>>

\* C18 witness: the run of the generated parameters (N=10, M=3, C=10, T=100)
\* has ended, 300 STAY replies applied, with the score 0 printed.
C18_Witness ==
    /\ pc = "done"
    /\ n = 10 /\ m = 3 /\ c = 10 /\ t = 100
    /\ nread = 300
    /\ last.action = "STAY"
    /\ printed = <<0>>

\* C19: the capacity is tested after the drop-off: an elevator that is full
\* (C aboard) with d >= 1 of them destined for its floor, given p distinct
\* valid indices, delivers the d and picks up min(d, p) in the same OPEN.
C19_DropOffFirst ==
    (/\ Applied("OPEN")
     /\ Distinct(last.picks)
     /\ \A i \in 1..Len(last.picks) : last.picks[i] < Len(QueueBefore)
     /\ Len(pre.elevators[last.elevator_idx].passengers) = c
     /\ Cardinality(Arrived) >= 1) =>
        LET d == Cardinality(Arrived)
            count == Min(d, Len(last.picks))
        IN  /\ last.res = "Ok"
            /\ Cardinality(Moved) = count
            /\ Moved \subseteq Range(QueueBefore)
            /\ Len(elevators[last.elevator_idx].passengers) = c - d + count
            /\ Len(QueueAfter) = Len(QueueBefore) - count
            /\ Arrived \cap Range(elevators[last.elevator_idx].passengers) = {}

\* C19 witness: a full elevator delivered a passenger and took a waiting one
\* in the same OPEN.
C19_Witness ==
    /\ Applied("OPEN") /\ last.res = "Ok"
    /\ c >= 1
    /\ Len(pre.elevators[last.elevator_idx].passengers) = c
    /\ Cardinality(Arrived) = 1
    /\ Len(last.picks) = 1
    /\ Cardinality(Moved) = 1
    /\ Len(elevators[last.elevator_idx].passengers) = c

\* C20: UP, DOWN and STAY on elevator e change nothing but the floor of e
\* (STAY changes nothing at all); OPEN on elevator e at floor f changes only
\* the aboard list of e, the queue of f and the score: the turn, every floor
\* of an elevator, every capacity, the aboard list of every other elevator
\* and the queue of every other floor are as they were.
C20_Frame ==
    /\ \A a \in {"UP", "DOWN", "STAY"} :
          Applied(a) =>
             /\ turn = pre.turn
             /\ score = pre.score
             /\ waiting_passengers = pre.waiting_passengers
             /\ \A e \in Elevs :
                   /\ elevators[e].passengers = pre.elevators[e].passengers
                   /\ elevators[e].capacity = pre.elevators[e].capacity
                   /\ e # last.elevator_idx => elevators[e].floor = pre.elevators[e].floor
             /\ a = "STAY" => Snapshot = pre
    /\ Applied("OPEN") =>
          /\ turn = pre.turn
          /\ \A e \in Elevs :
                /\ elevators[e].floor = pre.elevators[e].floor
                /\ elevators[e].capacity = pre.elevators[e].capacity
                /\ e # last.elevator_idx =>
                      elevators[e].passengers = pre.elevators[e].passengers
          /\ \A f \in Floors :
                f # pre.elevators[last.elevator_idx].floor =>
                   waiting_passengers[f] = pre.waiting_passengers[f]

\* C20 witness: DOWN moved elevator 1 of two while elevator 0, carrying a
\* passenger, and a floor queue with a passenger stayed as they were.
C20_Witness ==
    /\ Applied("DOWN")
    /\ last.elevator_idx = 1
    /\ elevators[1].floor = pre.elevators[1].floor - 1
    /\ elevators[0].floor # elevators[1].floor
    /\ elevators[0].passengers # <<>>
    /\ \E f \in Floors : waiting_passengers[f] # <<>>

\* The applications of a run of tu whole turns: one for each elevator of each
\* turn, the turns in the order 0, 1, .. and the elevators in order in each.
AllApplied(tu) == [k \in 1..(tu * m) |-> Ev("apply", (k - 1) \div m, (k - 1) % m)]

\* What holds of a run no reply of which was refused: it is in turn jturn < T
\* with the engine's turn counter at jturn, or it is over after exactly T
\* turns and T * M applications with the final score printed once.
WellBehaved ==
    error = <<>> =>
        /\ pc \in {"read", "apply"} =>
              /\ jturn \in 0..(t - 1) /\ turn = jturn
              /\ IsPrefix(EventsOf("apply"), AllApplied(t))
              /\ Len(EventsOf("apply")) = jturn * m + ji
              /\ printed = <<>>
        /\ pc = "loop" =>
              /\ jturn \in 0..t
              /\ EventsOf("apply") = AllApplied(jturn)
              /\ printed = <<>>
        /\ pc = "done" =>
              /\ jturn = t /\ turn = t - 1
              /\ EventsOf("apply") = AllApplied(t)
              /\ nread = t * m
              /\ printed = <<calculate_final_score>>
              /\ ~ ENABLED NextJudge

\* C21: a run whose replies are all valid and accepted runs exactly T turns,
\* applies exactly T * M actions, one per elevator per turn with the turn
\* counter going through 0..T-1 in order, then reports the final score once
\* and stops; and as long as the agent answers (with a line or by closing
\* its output) every run ends, with a reported score or with a fatal error.
C21_Termination ==
    /\ []WellBehaved
    /\ <>(pc \in {"done", "failed"})

\* C21 witness: a run of three turns with two elevators has ended with its
\* six replies applied and one score printed.
C21_Witness ==
    /\ pc = "done"
    /\ t = 3 /\ m = 2
    /\ Len(EventsOf("apply")) = 6
    /\ turn = 2
    /\ Len(printed) = 1
    /\ error = <<>>

\* The term of a passenger that was never delivered.
FinalTerm(p) == (t - p.arrival_turn) * (t - p.arrival_turn)

\* C22: at the end of a run of the driver every passenger of the scenario
\* (ids 0..next_id-1) is either delivered or still waiting or aboard, never
\* both and never neither, and the reported score is the sum of one term for
\* each: (b - a + 1)^2 if it was delivered at turn b, (T - a)^2 if not.  The
\* cumulative score never decreases and the final score is at least it.
C22_ScoredOnce ==
    /\ score >= pre.score
    /\ score = SumOver(delivered, [d \in delivered |-> DeliveryTerm(d)])
    /\ pc = "done" =>
          /\ {d.id : d \in delivered} \cup {p.id : p \in Present} = 0..(next_id - 1)
          /\ \A id \in 0..(next_id - 1) :
                Cardinality(PlacesWaiting(id) \cup PlacesAboard(id) \cup PlacesDelivered(id)) = 1
          /\ printed =
                <<SumOver(delivered, [d \in delivered |-> DeliveryTerm(d)])
                  + SumOver(Present, [p \in Present |-> FinalTerm(p)])>>
          /\ printed[1] >= score

\* C22 witness: a run has ended with one passenger delivered and another
\* still aboard an elevator, each adding its own term to the score.
C22_Witness ==
    /\ pc = "done"
    /\ next_id = 2
    /\ Cardinality(delivered) = 1
    /\ \E e \in Elevs : Len(elevators[e].passengers) = 1
    /\ score > 0
    /\ printed[1] > score

\* The arrivals of the scenario that are not yet in a floor queue.
NotYetArrived ==
    UNION {Range(passenger_source[f][tu]) : f \in Floors, tu \in 0..(t - 1)}

\* C23: in every state of the turn loop every passenger waiting or aboard
\* has arrival_turn <= turn <= T - 1; the arrivals of turn t are in their
\* queue when the state of turn t is written and are in no queue before;
\* so no subtraction underflows, every delivery adds at least 1 and every
\* term of the final score is at least 1.
C23_ArrivalTurn ==
    /\ turn \in 0..(t - 1)
    /\ \A p \in Present : p.arrival_turn <= turn /\ FinalTerm(p) >= 1
    /\ \A f \in Floors : \A tu \in 0..(t - 1) :
          \A p \in Range(passenger_source[f][tu]) :
             /\ p.arrival_turn = tu
             /\ tu >= jturn
    /\ pc \in {"read", "apply"} =>
          LET written == UNION {Range(turn_start.waiting_passengers[f]) : f \in Floors}
          IN  /\ turn_start.turn = jturn
              /\ \A p \in NotYetArrived : p.arrival_turn > jturn
              /\ \A p \in Present : p.arrival_turn = jturn => p \in written
              /\ \A d \in delivered :
                    d.arrival_turn = jturn => d.id \in {p.id : p \in written}
    /\ ~ panicked /\ last.res # "panic"
    /\ \A d \in delivered : d.at >= d.arrival_turn /\ DeliveryTerm(d) >= 1
    /\ {d.id : d \in delivered} \cup {p.id : p \in Present} \cup {p.id : p \in NotYetArrived}
          = 0..(next_id - 1)

\* C23 witness: at turn 2 a passenger that has just arrived waits on a floor
\* while one that arrived at turn 0 is aboard an elevator.
C23_Witness ==
    /\ pc \in {"read", "apply"}
    /\ jturn = 2 /\ turn = 2
    /\ \E f \in Floors : \E p \in Range(waiting_passengers[f]) : p.arrival_turn = 2
    /\ \E e \in Elevs : \E p \in Range(elevators[e].passengers) : p.arrival_turn = 0

\* C24: when greedy_agent is run against the driver on a scenario whose
\* destinations differ from their origin floors, every OPEN it sends for
\* elevator i carries only indices in range of the queue as it is when the
\* action of elevator i is applied, and as many as fit: the run never aborts
\* on a pickup index (nor on anything else the agent sent) and every
\* requested passenger is picked up.
C24_GreedyPickups ==
    /\ error = <<>>
    /\ pc # "failed"
    /\ (last.op = "apply_action" /\ last.action = "OPEN") =>
          /\ last.res = "Ok"
          /\ last.picks = [j \in 1..Len(last.picks) |-> j - 1]
          /\ \A i \in 1..Len(last.picks) : last.picks[i] < Len(QueueBefore)
          /\ Len(last.picks) <= FreeAfterDropOff
          /\ Cardinality(Moved) = Len(last.picks)
          /\ Moved = {QueueBefore[j] : j \in 1..Len(last.picks)}
          /\ Len(QueueAfter) = Len(QueueBefore) - Len(last.picks)

\* C24 witness: two elevators stand on the floor where two passengers wait;
\* elevator 0 has taken the first with index 0 and elevator 1, in the same
\* turn, has taken the second, also with index 0.
C24_Witness ==
    /\ Applied("OPEN") /\ last.res = "Ok"
    /\ last.elevator_idx = 1
    /\ last.picks = <<0>>
    /\ applied = <<0, 1>>
    /\ LET q == turn_start.waiting_passengers[pre.elevators[1].floor]
       IN  /\ Len(q) = 2
           /\ Moved = {q[2]}
           /\ q[1] \in Range(elevators[0].passengers)

====
